---------------------------- MODULE Spec2Model ----------------------------
(***************************************************************************)
(* Model of the image speed test repository.                               *)
(*                                                                         *)
(*   src/app.py              Flask server: the module-level list           *)
(*                           timing_data, the handlers serve_image,        *)
(*                           serve_sized_image, get_stats, clear_stats     *)
(*                           and the encoder generate_test_image.          *)
(*   src/image_speed_test.py client: test_image_download_speed.            *)
(*                                                                         *)
(* The server runs one handler per request on its own thread (app.run      *)
(* starts the threaded development server) and takes no lock.  A thread    *)
(* switch can fall between any two bytecodes, so every handler is split    *)
(* into the steps between which a switch is possible: reading the global   *)
(* name timing_data (LoadGlobal) is a step of its own, and the list        *)
(* operation on the object that was read is the next step.  The single     *)
(* list operations (append, len, pop, item read, slice) are atomic.        *)
(*                                                                         *)
(* clear_stats rebinds the global name to a new list object, so list       *)
(* objects live in a heap and timing_data is the identity of the object    *)
(* the global name is bound to.                                            *)
(***************************************************************************)
EXTENDS Integers, Sequences, FiniteSets, TLC

VARIABLES
    timing_data,   \* identity of the list object bound to the global name
    heap,          \* list object identity -> its contents
    th,            \* per request thread: position and locals of its handler
    clock,         \* value the next time.time() call of a handler returns
    nreq,          \* number of requests started so far
    serial,        \* TRUE: the server takes the requests one after another
    history,       \* ghost: observations appended to the live log since it
                   \*        was last empty by construction or by a clear
    enc,           \* one call of generate_test_image: its locals
    dl,            \* one call of test_image_download_speed: its locals
    run,           \* main of the client: its locals
    fmt            \* one report of a byte count: input and formatted output


---------------------------------------------------------------------------
(* Bounds of the model *)

NumThreads == 2
MaxRequests == 2
MaxDim == 1
MaxSizeKb == 1
MaxImageSize == 2
MaxTargetKb == 2
MaxChunks == 3
MaxRuns == 2
MaxDigits == 6

(* Constants of the program *)

Capacity == 100
RecentWindow == 10
StartQuality == 85
QualityStep == 5
MinQuality == 10
ChunkSize == 8192

Threads == 1 .. NumThreads
ObjIds == 0 .. NumThreads
NoRef == -1

Min(a, b) == IF a <= b THEN a ELSE b

---------------------------------------------------------------------------
(* Observations: the request_data dictionaries.  timestamp, client_ip and  *)
(* user_agent play no part in any list operation and are left out;         *)
(* start_time identifies the request.  The key that is present tells the   *)
(* two kinds of observation apart, as in the dictionaries.                 *)

(* str() of a non-negative integer *)
Digit == <<"0", "1", "2", "3", "4", "5", "6", "7", "8", "9">>

RECURSIVE Decimal(_)
Decimal(n) ==
    IF n < 10 THEN Digit[n + 1]
    ELSE Decimal(n \div 10) \o Digit[(n % 10) + 1]

(* f"{width}x{height}" *)
DimensionLabel(w, h) == Decimal(w) \o "x" \o Decimal(h)

DimObs(st, size, w, h) ==
    [start_time |-> st, image_size |-> size,
     dimensions |-> DimensionLabel(w, h)]

SizedObs(st, size, kb) ==
    [start_time |-> st, image_size |-> size, target_size_kb |-> kb]

NoObs == [start_time |-> 0]

(* The log of a fresh server after k <= 100 requests served one after      *)
(* another: every request appended its observation and none was evicted.   *)
(* Request i is by dimensions for odd i and by target size for even i.     *)
WarmObs(i) ==
    IF i % 2 = 1 THEN DimObs(i, 1 + (i % MaxImageSize), 1, 1)
                 ELSE SizedObs(i, 1 + (i % MaxImageSize), 1)

WarmLog(k) == [i \in 1 .. k |-> WarmObs(i)]

WarmLevels == {0, Capacity - 1, Capacity}

---------------------------------------------------------------------------
(* Responses *)

NoResult == [kind |-> "none"]
ImageResult(size) == [kind |-> "image", size |-> size]
ErrorResult == [kind |-> "error"]
NoDataResult == [kind |-> "nodata", total_requests |-> 0]
ClearedResult == [kind |-> "cleared"]

(* total_size / total_requests if total_requests > 0 else 0, kept exact    *)
(* as numerator and denominator.                                           *)
Average(total_size, total_requests) ==
    IF total_requests > 0 THEN <<total_size, total_requests>> ELSE <<0, 1>>

StatsResult(total, size, recent) ==
    [kind |-> "stats", total_requests |-> total, total_data_served |-> size,
     average_image_size |-> Average(size, total), recent_requests |-> recent]

(* Mutant: the first entries instead of the last, timing_data[:10]. *)
FirstSlice(log, n) ==
    IF Len(log) <= n THEN log ELSE SubSeq(log, 1, n)

(* timing_data[-10:] *)
LastSlice(log, n) ==
    IF Len(log) <= n THEN log ELSE SubSeq(log, Len(log) - n + 1, Len(log))

---------------------------------------------------------------------------
(* Thread locals *)

IdleThread ==
    [pc |-> "idle", op |-> "none", width |-> 0, height |-> 0, size_kb |-> 0,
     start_time |-> 0, ref |-> NoRef, obs |-> NoObs, encoded |-> FALSE,
     total |-> 0, sum |-> 0, idx |-> 0, result |-> NoResult,
     before |-> 0, seen |-> {}]

Log == heap[timing_data]


---------------------------------------------------------------------------
(* Reference aggregate of a log: the answer of a stats query that has the  *)
(* log to itself.  Used by the properties, never by the handlers.          *)

(* Sum of the image sizes of log[lo .. hi], by halving the range. *)
RECURSIVE SumRange(_, _, _)
SumRange(log, lo, hi) ==
    IF lo > hi THEN 0
    ELSE IF lo = hi THEN log[lo].image_size
    ELSE LET mid == (lo + hi) \div 2
         IN  SumRange(log, lo, mid) + SumRange(log, mid + 1, hi)

(* The last n entries of log in their order (all of them if fewer). *)
Suffix(log, n) ==
    LET m == Min(n, Len(log))
    IN  [i \in 1 .. m |-> log[Len(log) - m + i]]

Aggregate(log) ==
    IF log = <<>> THEN NoDataResult
    ELSE [kind |-> "stats",
          total_requests |-> Len(log),
          total_data_served |-> SumRange(log, 1, Len(log)),
          average_image_size |-> <<SumRange(log, 1, Len(log)), Len(log)>>,
          recent_requests |-> Suffix(log, RecentWindow)]

---------------------------------------------------------------------------
(* One step of thread t leaves it with locals rec, the heap as h and the   *)
(* global name bound to g.  A list object that neither the global name nor *)
(* a thread refers to is freed (its slot is emptied).  Ghost: every stats  *)
(* query in flight records the contents of the live log after the step.    *)

Update(t, rec, h, g) ==
    LET th1 == [th EXCEPT ![t] = rec]
        live(o) == o = g \/ \E u \in Threads : th1[u].ref = o
        h1 == [o \in ObjIds |-> IF live(o) THEN h[o] ELSE <<>>]
    IN  /\ UNCHANGED <<enc, dl, run, fmt>>
        /\ timing_data' = g
        /\ heap' = h1
        /\ th' = [u \in Threads |->
                    IF th1[u].op = "stats" /\ th[u].pc # "done"
                    THEN [th1[u] EXCEPT !.seen = @ \cup {h1[g]}]
                    ELSE th1[u]]

Local(t, rec) == Update(t, rec, heap, timing_data)

(* Thread t may take a step: always on the threaded server; on a serial    *)
(* one only while no other request is in progress.                         *)
Runnable(t) == serial => \A u \in Threads \ {t} : th[u].pc = "idle"

At(t, p) == th[t].pc = p /\ Runnable(t)

CanStart(t) == At(t, "idle") /\ nreq < MaxRequests

Begin(t, rec) ==
    /\ nreq' = nreq + 1
    /\ clock' = clock + 1
    /\ Local(t, [rec EXCEPT !.start_time = clock + 1, !.before = Len(Log)])
    /\ UNCHANGED <<serial, history>>

---------------------------------------------------------------------------
(* Requests.  The <int:...> converters of the routes accept the decimal    *)
(* integers 0, 1, 2, ...; a negative number matches no route.              *)

(* GET /image/<int:width>/<int:height> *)
StartImage(t) ==
    /\ CanStart(t)
    /\ \E w \in 0 .. MaxDim, h \in 0 .. MaxDim :
         Begin(t, [IdleThread EXCEPT !.pc = "gen", !.op = "image",
                                     !.width = w, !.height = h])

(* GET /image/<int:size_kb>kb *)
StartSized(t) ==
    /\ CanStart(t)
    /\ \E kb \in 0 .. MaxSizeKb :
         Begin(t, [IdleThread EXCEPT !.pc = "gen", !.op = "sized",
                                     !.size_kb = kb])

(* GET /stats *)
StartStats(t) ==
    /\ CanStart(t)
    /\ Begin(t, [IdleThread EXCEPT !.pc = "ld_empty", !.op = "stats"])

(* GET /clear-stats *)
StartClear(t) ==
    /\ CanStart(t)
    /\ Begin(t, [IdleThread EXCEPT !.pc = "clear", !.op = "clear"])

---------------------------------------------------------------------------
(* generate_test_image as the handlers call it.                            *)

(* "if size_kb:" selects the quality search; None and 0 are both falsy.    *)
UsesSearch(size_kb) == size_kb # 0

(* Image.new accepts a zero width or height; the JPEG encoder refuses an   *)
(* empty image, so img.save raises.                                        *)
EmptyCanvas(w, h) == w = 0 \/ h = 0

(* serve_sized_image passes no dimensions: the defaults 1920 x 1080.       *)
CanvasOf(r) ==
    IF r.op = "image" THEN <<r.width, r.height>> ELSE <<1920, 1080>>

(* Mutant: one dictionary with both fields for either request. *)
ObsWithBoth(r, size) ==
    [start_time |-> r.start_time, image_size |-> size,
     dimensions |-> DimensionLabel(r.width, r.height),
     target_size_kb |-> r.size_kb]

ObsOf(r, size) ==
    IF r.op = "image" THEN DimObs(r.start_time, size, r.width, r.height)
                      ELSE SizedObs(r.start_time, size, r.size_kb)

(* Lines 95-115 / 136-156: the image is generated and request_data built.  *)
(* Mutant: the exception of the encoder is swallowed and the handler goes  *)
(* on to its log update.                                                   *)
GoOnToLog == "ld_append"

(* Lines 98 and 139 are in no try block: an exception raised by            *)
(* generate_test_image leaves the handler at once.                         *)
AfterEncodingError == "done"

(* The encoder either raises (always on an empty canvas, possibly on any   *)
(* other: a codec failure), which ends the request with an error, or       *)
(* yields a payload of some positive size.                                 *)
Generate(t) ==
    LET r == th[t]
        c == CanvasOf(r)
    IN  /\ At(t, "gen")
        /\ \/ /\ Local(t, [r EXCEPT !.pc = AfterEncodingError,
                                      !.result = ErrorResult])
           \/ /\ ~EmptyCanvas(c[1], c[2])
              /\ \E size \in 1 .. MaxImageSize :
                   Local(t, [r EXCEPT !.pc = "ld_append", !.encoded = TRUE,
                                      !.obs = ObsOf(r, size)])
        /\ UNCHANGED <<serial, clock, nreq, history>>

---------------------------------------------------------------------------
(* Reading the global name timing_data.                                    *)

LoadPcs == {"ld_append", "ld_len", "ld_pop", "ld_empty", "ld_total",
            "ld_iter", "ld_slice"}

AfterLoad(p) ==
    CASE p = "ld_append" -> "append"
      [] p = "ld_len"    -> "len"
      [] p = "ld_pop"    -> "pop"
      [] p = "ld_empty"  -> "empty"
      [] p = "ld_total"  -> "total"
      [] p = "ld_iter"   -> "iter"
      [] p = "ld_slice"  -> "slice"

LoadGlobal(t) ==
    /\ th[t].pc \in LoadPcs
    /\ Runnable(t)
    /\ Local(t, [th[t] EXCEPT !.pc = AfterLoad(th[t].pc), !.ref = timing_data])
    /\ UNCHANGED <<serial, clock, nreq, history>>

---------------------------------------------------------------------------
(* serve_image / serve_sized_image, lines 117-129 / 158-169.               *)

(* list.append(x) and list.pop(0) *)
ListAppend(l, x) == Append(l, x)

(* Mutant: pop() with no index, which removes the newest entry. *)
ListPopLast(l) == SubSeq(l, 1, Len(l) - 1)

ListPopFirst(l) == Tail(l)

(* timing_data.append(request_data) *)
AppendStep(t) ==
    LET r == th[t]
    IN  /\ At(t, "append")
        /\ Update(t, [r EXCEPT !.pc = "ld_len", !.ref = NoRef],
                  [heap EXCEPT ![r.ref] = ListAppend(@, r.obs)], timing_data)
        /\ history' = IF r.ref = timing_data THEN Append(history, r.obs)
                                             ELSE history
        /\ UNCHANGED <<serial, clock, nreq>>

(* Mutant: the comparison off by one. *)
AtCapacity(n) == n >= Capacity

(* if len(timing_data) > 100: *)
OverCapacity(n) == n > Capacity

LenCheck(t) ==
    LET r == th[t]
    IN  /\ At(t, "len")
        /\ Local(t, [r EXCEPT !.ref = NoRef,
                       !.pc = IF OverCapacity(Len(heap[r.ref])) THEN "ld_pop"
                                                                ELSE "send"])
        /\ UNCHANGED <<serial, clock, nreq, history>>

(* timing_data.pop(0): IndexError on an empty list, which ends the request *)
(* with an error response.                                                 *)
PopStep(t) ==
    LET r == th[t]
    IN  /\ At(t, "pop")
        /\ IF heap[r.ref] = <<>>
           THEN Local(t, [r EXCEPT !.pc = "done", !.ref = NoRef,
                                   !.result = ErrorResult])
           ELSE Update(t, [r EXCEPT !.pc = "send", !.ref = NoRef],
                       [heap EXCEPT ![r.ref] = ListPopFirst(@)], timing_data)
        /\ UNCHANGED <<serial, clock, nreq, history>>

(* return send_file(img_bytes, ...) *)
Send(t) ==
    LET r == th[t]
    IN  /\ At(t, "send")
        /\ Local(t, [r EXCEPT !.pc = "done",
                              !.result = ImageResult(r.obs.image_size)])
        /\ UNCHANGED <<serial, clock, nreq, history>>

---------------------------------------------------------------------------
(* get_stats, lines 172-193.                                               *)

(* Mutant: the empty log is not told apart. *)
NeverFalsy(l) == FALSE

(* "not timing_data": a list is falsy when it has no items. *)
IsFalsy(l) == Len(l) = 0

(* if not timing_data: return the 'No requests yet' message *)
EmptyCheck(t) ==
    LET r == th[t]
    IN  /\ At(t, "empty")
        /\ IF IsFalsy(heap[r.ref])
           THEN Local(t, [r EXCEPT !.pc = "done", !.ref = NoRef,
                                   !.result = NoDataResult])
           ELSE Local(t, [r EXCEPT !.pc = "ld_total", !.ref = NoRef])
        /\ UNCHANGED <<serial, clock, nreq, history>>

(* total_requests = len(timing_data) *)
TotalStep(t) ==
    LET r == th[t]
    IN  /\ At(t, "total")
        /\ Local(t, [r EXCEPT !.pc = "ld_iter", !.ref = NoRef,
                              !.total = Len(heap[r.ref])])
        /\ UNCHANGED <<serial, clock, nreq, history>>

(* sum(req['image_size'] for req in timing_data): the list iterator is     *)
(* created on the object just read and keeps it; it starts at index 0.     *)
IterStep(t) ==
    LET r == th[t]
    IN  /\ At(t, "iter")
        /\ Local(t, [r EXCEPT !.pc = "next", !.idx = 0, !.sum = 0])
        /\ UNCHANGED <<serial, clock, nreq, history>>

(* One item of the iteration: the iterator yields list[idx] while idx is   *)
(* below the current length, and is exhausted otherwise.                   *)
NextItem(t) ==
    LET r == th[t]
        l == heap[r.ref]
    IN  /\ At(t, "next")
        /\ IF r.idx < Len(l)
           THEN Local(t, [r EXCEPT !.idx = @ + 1,
                                   !.sum = @ + l[r.idx + 1].image_size])
           ELSE Local(t, [r EXCEPT !.pc = "ld_slice", !.ref = NoRef])
        /\ UNCHANGED <<serial, clock, nreq, history>>

(* recent_requests = timing_data[-10:], then the jsonify of the four keys  *)
SliceStep(t) ==
    LET r == th[t]
        recent == LastSlice(heap[r.ref], RecentWindow)
    IN  /\ At(t, "slice")
        /\ Local(t, [r EXCEPT !.pc = "done", !.ref = NoRef,
                              !.result = StatsResult(r.total, r.sum, recent)])
        /\ UNCHANGED <<serial, clock, nreq, history>>

---------------------------------------------------------------------------
(* clear_stats, lines 196-200: timing_data = [] binds the global name to a *)
(* new, empty list object; the old object is not touched.                  *)

(* Mutant: without the global statement the assignment binds a local     *)
(* name and the module-level list stays as it was.                         *)
GlobalKept(new, old) == old

(* "global timing_data" makes the assignment bind the module-level name   *)
(* to the new list.                                                        *)
GlobalAfterClear(new, old) == new

FreshObj ==
    CHOOSE o \in ObjIds :
        o # timing_data /\ \A u \in Threads : th[u].ref # o

ClearStep(t) ==
    LET r == th[t]
    IN  /\ At(t, "clear")
        /\ Update(t, [r EXCEPT !.pc = "done", !.result = ClearedResult],
                  [heap EXCEPT ![FreshObj] = <<>>],
                  GlobalAfterClear(FreshObj, timing_data))
        /\ history' = IF timing_data' # timing_data THEN <<>> ELSE history
        /\ UNCHANGED <<serial, clock, nreq>>

(* The response has been sent; the thread is free for the next request.    *)
Return(t) ==
    /\ At(t, "done")
    /\ Local(t, IdleThread)
    /\ UNCHANGED <<serial, clock, nreq, history>>

---------------------------------------------------------------------------
serverVars == <<timing_data, heap, th, clock, nreq, serial, history>>

vars ==
    <<timing_data, heap, th, clock, nreq, serial, history, enc, dl, run, fmt>>

ServerNext ==
    \E t \in Threads :
        \/ StartImage(t)
        \/ StartSized(t)
        \/ StartStats(t)
        \/ StartClear(t)
        \/ Generate(t)
        \/ LoadGlobal(t)
        \/ AppendStep(t)
        \/ LenCheck(t)
        \/ PopStep(t)
        \/ Send(t)
        \/ EmptyCheck(t)
        \/ TotalStep(t)
        \/ IterStep(t)
        \/ NextItem(t)
        \/ SliceStep(t)
        \/ ClearStep(t)
        \/ Return(t)

---------------------------------------------------------------------------
(* generate_test_image, lines 60-82: the encoding into img_bytes.          *)
(*                                                                         *)
(* img_bytes is modelled by the number of bytes it holds.  The size the    *)
(* JPEG encoder produces at a quality is any of EncodedSizes: the sizes    *)
(* just at and just above 110% of each target, one below all of them and   *)
(* one above all.                                                          *)

EncodedSizes ==
    {(kb * 11264) \div 10 + d : kb \in 1 .. MaxTargetKb, d \in {0, 1}}
        \cup {512, (MaxTargetKb + 1) * 11264}

NoQuality == 0

EncIdle ==
    [pc |-> "idle", size_kb |-> 0, quality |-> NoQuality, buffer |-> 0,
     saves |-> 0, last_quality |-> NoQuality, last_size |-> 0]

(* current_size <= size_kb * 1.1 with current_size = len / 1024.  The      *)
(* length is a whole number of bytes and size_kb * 1.1 * 1024 is a whole   *)
(* number or at least 0.2 away from one, so the floating point comparison  *)
(* decides as the exact one: 10 * len <= 11 * 1024 * size_kb.              *)
WithinTarget(len, size_kb) == 10 * len <= 11 * 1024 * size_kb

(* Mutant: the buffer is not emptied before the next encoding. *)
KeepContents(len) == len

(* img_bytes.seek(0); img_bytes.truncate(0) *)
Truncate(len) == 0

(* img.save writes the encoding from position 0: bytes beyond it stay. *)
WriteFromStart(len, bytes) == IF bytes > len THEN bytes ELSE len

(* if size_kb: quality = 85 ... else: one encoding at quality 85 *)
EncBranch ==
    /\ enc.pc = "begin"
    /\ enc' = IF UsesSearch(enc.size_kb)
              THEN [enc EXCEPT !.pc = "save", !.quality = StartQuality]
              ELSE [enc EXCEPT !.pc = "fixed"]
    /\ UNCHANGED <<serverVars, dl, run, fmt>>

(* Lines 68-71: one encoding at the current quality. *)
EncSave ==
    /\ enc.pc = "save"
    /\ \E bytes \in EncodedSizes :
         enc' = [enc EXCEPT !.pc = "check",
                            !.buffer = WriteFromStart(Truncate(@), bytes),
                            !.saves = @ + 1,
                            !.last_quality = enc.quality,
                            !.last_size = bytes]
    /\ UNCHANGED <<serverVars, dl, run, fmt>>

(* Mutant: the search stops only below quality 0. *)
BelowZero(quality) == quality < 0

(* "if quality < 10: break" *)
BelowFloor(quality) == quality < MinQuality

(* Lines 73-77: accept, or lower the quality and go on while it is >= 10.   *)
EncCheck ==
    /\ enc.pc = "check"
    /\ enc' = IF WithinTarget(enc.buffer, enc.size_kb)
              THEN [enc EXCEPT !.pc = "done"]
              ELSE IF BelowFloor(enc.quality - QualityStep)
              THEN [enc EXCEPT !.pc = "done",
                               !.quality = @ - QualityStep]
              ELSE [enc EXCEPT !.pc = "save",
                               !.quality = @ - QualityStep]
    /\ UNCHANGED <<serverVars, dl, run, fmt>>

(* Line 79: img.save(img_bytes, format='JPEG', quality=85) *)
EncFixed ==
    /\ enc.pc = "fixed"
    /\ \E bytes \in EncodedSizes :
         enc' = [enc EXCEPT !.pc = "done",
                            !.buffer = WriteFromStart(@, bytes),
                            !.saves = @ + 1,
                            !.last_quality = StartQuality,
                            !.last_size = bytes]
    /\ UNCHANGED <<serverVars, dl, run, fmt>>

SearchNext ==
    \/ EncBranch
    \/ EncSave
    \/ EncCheck
    \/ EncFixed

---------------------------------------------------------------------------
(* src/image_speed_test.py: format_bytes, format_speed, print_results      *)
(*                                                                         *)
(* Byte counts reach beyond a terabyte, so a number is kept exact as the   *)
(* digits of its numerator in base 1024, most significant first, over a    *)
(* denominator den in 1 .. 102; 0 is <<0>>.  Dividing by 1024.0 is exact   *)
(* in floating point (a power of two), and so is every comparison below    *)
(* for numerators up to 2^53; beyond, rounding cannot carry a value        *)
(* across 1024^4, the last limit compared with.                            *)
(*                                                                         *)
(* The loop tries the first four units in turn: "if value < 1024.0:        *)
(* return", else "value /= 1024.0"; after the fourth it returns the fifth  *)
(* unit.  The result is the number, how often it was divided by 1024, and  *)
(* the unit (the text is that value with two decimals and the unit name).  *)

ByteUnits == <<"B", "KB", "MB", "GB", "TB">>
SpeedUnits == <<"B/s", "KB/s", "MB/s", "GB/s", "TB/s">>

(* The digits of a non-negative integer *)
RECURSIVE ToDigits(_)
ToDigits(n) ==
    IF n < 1024 THEN <<n>> ELSE ToDigits(n \div 1024) \o <<n % 1024>>

Zeros(n) == [i \in 1 .. n |-> 0]

(* a < b for two numbers given by their digits *)
RECURSIVE LessFrom(_, _, _)
LessFrom(a, b, i) ==
    IF i > Len(a) THEN FALSE
    ELSE IF a[i] # b[i] THEN a[i] < b[i]
    ELSE LessFrom(a, b, i + 1)

Less(a, b) ==
    IF Len(a) # Len(b) THEN Len(a) < Len(b) ELSE LessFrom(a, b, 1)

(* Mutant: "if value <= 1024.0" *)
AtMostLimit(digits, den, shift) ==
    ~Less(<<den>> \o Zeros(shift + 1), digits)

(* "if value < 1024.0" for value = digits / (den * 1024^shift) *)
BelowLimit(digits, den, shift) == Less(digits, <<den>> \o Zeros(shift + 1))

RECURSIVE ScaleFrom(_, _, _)
ScaleFrom(digits, den, k) ==
    IF k > 4
    THEN [digits |-> digits, den |-> den, shift |-> 4, unit |-> 5]
    ELSE IF BelowLimit(digits, den, k - 1)
    THEN [digits |-> digits, den |-> den, shift |-> k - 1, unit |-> k]
    ELSE ScaleFrom(digits, den, k + 1)

format_bytes(digits, den) ==
    LET r == ScaleFrom(digits, den, 1)
    IN  [digits |-> r.digits, den |-> r.den, shift |-> r.shift,
         unit |-> ByteUnits[r.unit]]

format_speed(digits, den) ==
    LET r == ScaleFrom(digits, den, 1)
    IN  [digits |-> r.digits, den |-> r.den, shift |-> r.shift,
         unit |-> SpeedUnits[r.unit]]

(* print_results, lines 126-134: speed_mbps = speed_bps / (1024 * 1024)    *)
(* is compared with 10, 5 and 1.                                           *)

(* Mutant: "speed_mbps >= mb" *)
AtLeastMbps(digits, den, mb) == ~Less(digits, <<mb * den, 0, 0>>)

(* "speed_mbps > mb" *)
ExceedsMbps(digits, den, mb) == Less(<<mb * den, 0, 0>>, digits)

SpeedBand(digits, den) ==
    IF ExceedsMbps(digits, den, 10) THEN "excellent"
    ELSE IF ExceedsMbps(digits, den, 5) THEN "good"
    ELSE IF ExceedsMbps(digits, den, 1) THEN "moderate"
    ELSE "slow"

(* One report: a number of bytes (per second) is formatted both ways and   *)
(* classified.                                                             *)
NoText == [unit |-> "none"]

FmtIdle ==
    [pc |-> "idle", digits |-> <<0>>, den |-> 1, size_formatted |-> NoText,
     speed_formatted |-> NoText, band |-> "none"]

(* Line 86: 'size_formatted': format_bytes(downloaded_bytes) *)
FmtBytes ==
    /\ fmt.pc = "bytes"
    /\ fmt' = [fmt EXCEPT !.pc = "speed",
                          !.size_formatted = format_bytes(fmt.digits, fmt.den)]
    /\ UNCHANGED <<serverVars, enc, dl, run>>

(* Line 89: 'speed_formatted': format_speed(speed_bps) *)
FmtSpeed ==
    /\ fmt.pc = "speed"
    /\ fmt' = [fmt EXCEPT !.pc = "band",
                          !.speed_formatted = format_speed(fmt.digits, fmt.den)]
    /\ UNCHANGED <<serverVars, enc, dl, run>>

(* Lines 125-134: the assessment of print_results *)
FmtBand ==
    /\ fmt.pc = "band"
    /\ fmt' = [fmt EXCEPT !.pc = "done",
                          !.band = SpeedBand(fmt.digits, fmt.den)]
    /\ UNCHANGED <<serverVars, enc, dl, run>>

FormatNext ==
    \/ FmtBytes
    \/ FmtSpeed
    \/ FmtBand

---------------------------------------------------------------------------
(* test_image_download_speed(url, timeout), lines 44-108.                  *)
(*                                                                         *)
(* Exceptions are named by their class.  The classes raised by requests    *)
(* derive from RequestException; ValueError is what int() raises on a      *)
(* malformed content-length, ZeroDivisionError a division by zero and      *)
(* OtherError any other Exception raised while streaming.                  *)
(* (KeyboardInterrupt and SystemExit are not Exceptions and are no         *)
(* outcome of the request; they are not modelled.)                         *)

RequestExceptions ==
    {"ConnectionError", "Timeout", "HTTPError", "ChunkedEncodingError"}

OtherExceptions == {"ValueError", "ZeroDivisionError", "OtherError"}

NoExc == "none"
NoSize == -1

(* The content-length header: absent, empty, decimal digits or other text. *)
HeaderValues ==
    {[kind |-> "absent"], [kind |-> "empty"], [kind |-> "digits", value |-> 0],
     [kind |-> "digits", value |-> ChunkSize], [kind |-> "text"]}

(* "if content_length:" - None and the empty string are falsy *)
HeaderTruthy(h) == h.kind \in {"digits", "text"}

(* Statuses of the response and the chunk lengths iter_content yields. *)
Statuses == {200, 404}
ChunkLens == {0, 1, ChunkSize}

(* end_time - start_time in seconds; the wall clock may stand or step back *)
Durations == {-1, 0, 1, 2}

(* The remote server either ends the body after at most MaxChunks chunks   *)
(* (or fails), or it never ends it: it delivers one chunk after another,   *)
(* each within the timeout of a single read.  The timeout handed to        *)
(* requests.get bounds the wait for the response and for each read, not    *)
(* the time of the whole download.                                         *)
ServerKinds == {"finite", "endless"}

(* lens counts, per length, the chunks the loop has consumed; overdue      *)
(* tells that more than timeout seconds have passed since start_time;      *)
(* beat is the parity of the chunks consumed beyond the counted ones.      *)
DlStart ==
    [pc |-> "get", exc |-> NoExc, status |-> 0, header |-> [kind |-> "absent"],
     total_size |-> NoSize, downloaded |-> 0, chunks |-> 0,
     lens |-> [len \in ChunkLens |-> 0],
     server |-> "finite", overdue |-> FALSE, beat |-> 0,
     result |-> [success |-> "none"]]

DlStartAt(kind) == [DlStart EXCEPT !.server = kind]

DlIdle == [DlStart EXCEPT !.pc = "idle"]

Outcome(result) ==
    IF result.success
    THEN [success |-> TRUE, speed_bps |-> result.speed_bps]
    ELSE [success |-> FALSE]

Raise(e) == [dl EXCEPT !.pc = "except", !.exc = e]

(* Line 49: requests.get(url, stream=True, timeout=timeout) *)
DlGet ==
    /\ dl.pc = "get"
    /\ \/ \E e \in {"ConnectionError", "Timeout"} : dl' = Raise(e)
       \/ \E st \in Statuses, h \in HeaderValues :
            dl' = [dl EXCEPT !.pc = "status", !.status = st, !.header = h]
    /\ UNCHANGED <<serverVars, enc, run, fmt>>

(* Line 50: response.raise_for_status() raises HTTPError on 4xx and 5xx *)
DlRaiseForStatus ==
    /\ dl.pc = "status"
    /\ dl' = IF dl.status >= 400 THEN Raise("HTTPError")
                                 ELSE [dl EXCEPT !.pc = "length"]
    /\ UNCHANGED <<serverVars, enc, run, fmt>>

(* Lines 53-59: total_size = int(content_length) or None *)
DlContentLength ==
    /\ dl.pc = "length"
    /\ dl' = IF ~HeaderTruthy(dl.header)
             THEN [dl EXCEPT !.pc = "stream", !.total_size = NoSize]
             ELSE IF dl.header.kind = "digits"
             THEN [dl EXCEPT !.pc = "stream", !.total_size = dl.header.value]
             ELSE Raise("ValueError")
    /\ UNCHANGED <<serverVars, enc, run, fmt>>

(* "if total_size:" guards the division of the progress line: None and 0  *)
(* are falsy.                                                              *)
ShowsProgress(total_size) == total_size # NoSize /\ total_size # 0

(* Lines 65-72: the next item of response.iter_content: a chunk, the end   *)
(* of the body, or an exception.  An empty chunk is skipped ("if chunk:"); *)
(* the progress line divides by total_size.  A chunk arrives within the    *)
(* timeout of its read, and the time since start_time may pass the         *)
(* timeout with it.  Of an endless body the first MaxChunks chunks are     *)
(* counted; the loop consumes the later ones all the same.                 *)
DlChunk ==
    /\ dl.pc = "stream"
    /\ \/ /\ dl.chunks < MaxChunks
          /\ \E len \in ChunkLens, late \in BOOLEAN :
               LET got == IF len # 0 THEN dl.downloaded + len ELSE dl.downloaded
                   divides == len # 0 /\ ShowsProgress(dl.total_size)
               IN  dl' = IF divides /\ dl.total_size = 0
                         THEN Raise("ZeroDivisionError")
                         ELSE [dl EXCEPT !.chunks = @ + 1, !.downloaded = got,
                                         !.lens[len] = @ + 1,
                                         !.overdue = @ \/ late]
       \/ /\ dl.chunks >= MaxChunks
          /\ dl.server = "endless"
          /\ dl' = [dl EXCEPT !.overdue = TRUE, !.beat = 1 - @]
       \/ /\ dl.server = "finite"
          /\ \E e \in {"ChunkedEncodingError", "ConnectionError", "OtherError"} :
               dl' = Raise(e)
       \/ /\ dl.server = "finite"
          /\ dl' = [dl EXCEPT !.pc = "finish"]
    /\ UNCHANGED <<serverVars, enc, run, fmt>>

(* a / b of Python: a fraction, or ZeroDivisionError when b is 0 *)
DivisionByZero == <<0, 0>>

Divide(a, b) == IF b = 0 THEN DivisionByZero ELSE <<a, b>>

(* Mutant: the guard admits a duration of 0. *)
DurationNotNegative(duration) == duration >= 0

(* "if duration > 0" *)
DurationPositive(duration) == duration > 0

(* downloaded_bytes / duration if duration > 0 else 0 *)
Throughput(bytes, duration) ==
    IF DurationPositive(duration) THEN Divide(bytes, duration) ELSE <<0, 1>>

(* Lines 75-93: the duration, the speed and the result of a success. *)
DlFinish ==
    /\ dl.pc = "finish"
    /\ \E duration \in Durations :
         LET speed == Throughput(dl.downloaded, duration)
         IN  dl' = IF speed = DivisionByZero
                   THEN Raise("ZeroDivisionError")
                   ELSE [dl EXCEPT
                      !.pc = "returned",
                      !.result =
                         [url |-> "url",
                          size_bytes |-> dl.downloaded,
                          size_formatted |->
                             format_bytes(ToDigits(dl.downloaded), 1),
                          duration_seconds |-> duration,
                          speed_bps |-> speed,
                          speed_formatted |->
                             format_speed(ToDigits(speed[1]), speed[2]),
                          success |-> TRUE]]
    /\ UNCHANGED <<serverVars, enc, run, fmt>>

(* Mutant: no "except Exception" clause. *)
NoGenericClause(e) == FALSE

(* except requests.exceptions.RequestException / except Exception *)
RequestClause(e) == e \in RequestExceptions

GenericClause(e) == e \in RequestExceptions \cup OtherExceptions

(* Lines 95-108: both clauses return {url, error, success: False}; an      *)
(* exception that no clause matches leaves the function.                   *)
DlHandle ==
    /\ dl.pc = "except"
    /\ dl' = IF RequestClause(dl.exc) \/ GenericClause(dl.exc)
             THEN [dl EXCEPT !.pc = "returned",
                             !.result = [url |-> "url", error |-> dl.exc,
                                         success |-> FALSE]]
             ELSE [dl EXCEPT !.pc = "raised"]
    /\ UNCHANGED <<serverVars, enc, run, fmt>>

DownloadNext ==
    \/ DlGet
    \/ DlRaiseForStatus
    \/ DlContentLength
    \/ DlChunk
    \/ DlFinish
    \/ DlHandle

---------------------------------------------------------------------------
(* src/image_speed_test.py: main, lines 136-172.                           *)
(*                                                                         *)
(* run holds main's locals: multiple is args.multiple, i the index of the  *)
(* loop "for i in range(args.multiple)", speeds the list of the speeds of  *)
(* the successful tests.  avg and completed are what the summary prints    *)
(* (lines 166-169); <<0, 0>> stands for "not printed".  attempts records,  *)
(* in order, the outcome of every test that returned: its success flag     *)
(* and, for a success, its speed.  main has no try: an exception leaving   *)
(* test_image_download_speed would end it.                                 *)

NotPrinted == <<0, 0>>

RunIdle ==
    [pc |-> "idle", multiple |-> 1, i |-> 0, speeds |-> <<>>,
     avg |-> NotPrinted, completed |-> NotPrinted, attempts |-> <<>>]

(* Exact sum of two fractions *)
RatAdd(a, b) == <<a[1] * b[2] + b[1] * a[2], a[2] * b[2]>>

(* sum(speeds): from 0, left to right *)
RECURSIVE SumSpeeds(_, _)
SumSpeeds(speeds, k) ==
    IF k = 0 THEN <<0, 1>> ELSE RatAdd(SumSpeeds(speeds, k - 1), speeds[k])

(* Mutant: the average taken over all the tests run. *)
OverAllTests(speeds, multiple) == multiple

(* avg_speed = sum(speeds) / len(speeds) *)
AvgDivisor(speeds, multiple) == Len(speeds)

AverageSpeed(speeds, multiple) ==
    LET total == SumSpeeds(speeds, Len(speeds))
    IN  <<total[1], total[2] * AvgDivisor(speeds, multiple)>>

(* Mutant: the loop stops at the first failed test. *)
StopOnFailure(result) == result.success

(* Lines 160-164: neither branch leaves the loop. *)
ContinuesAfter(result) == TRUE

(* Line 152: if args.multiple > 1 *)
MainBranch ==
    /\ run.pc = "start"
    /\ run' = [run EXCEPT !.pc = IF run.multiple > 1 THEN "loop" ELSE "single",
                          !.speeds = <<>>, !.i = 0]
    /\ UNCHANGED <<serverVars, enc, dl, fmt>>

(* Lines 156-158: the next test of the loop is called. *)
MainCall ==
    /\ run.pc = "loop"
    /\ run.i < run.multiple
    /\ dl = DlIdle
    /\ \E kind \in ServerKinds : dl' = DlStartAt(kind)
    /\ run' = [run EXCEPT !.pc = "call"]
    /\ UNCHANGED <<serverVars, enc, fmt>>

(* Lines 160-164: the test returned; a success appends its speed. *)
MainCollect ==
    /\ run.pc = "call"
    /\ dl.pc = "returned"
    /\ run' = [run EXCEPT
                 !.pc = IF ContinuesAfter(dl.result) THEN "loop" ELSE "summary",
                 !.i = @ + 1,
                 !.speeds = IF dl.result.success
                            THEN Append(@, dl.result.speed_bps) ELSE @,
                 !.attempts = Append(@, Outcome(dl.result))]
    /\ dl' = DlIdle
    /\ UNCHANGED <<serverVars, enc, fmt>>

(* The loop is exhausted. *)
MainLoopEnd ==
    /\ run.pc = "loop"
    /\ run.i >= run.multiple
    /\ run' = [run EXCEPT !.pc = "summary"]
    /\ UNCHANGED <<serverVars, enc, dl, fmt>>

(* Lines 166-169: "if speeds:" the average and "Tests completed: n/m". *)
MainSummary ==
    /\ run.pc = "summary"
    /\ run' = IF run.speeds # <<>>
              THEN [run EXCEPT
                      !.pc = "done",
                      !.avg = AverageSpeed(run.speeds, run.multiple),
                      !.completed = <<Len(run.speeds), run.multiple>>]
              ELSE [run EXCEPT !.pc = "done"]
    /\ UNCHANGED <<serverVars, enc, dl, fmt>>

(* Lines 170-172: a single test. *)
MainSingle ==
    /\ run.pc = "single"
    /\ dl = DlIdle
    /\ \E kind \in ServerKinds : dl' = DlStartAt(kind)
    /\ run' = [run EXCEPT !.pc = "single_call"]
    /\ UNCHANGED <<serverVars, enc, fmt>>

MainSingleDone ==
    /\ run.pc = "single_call"
    /\ dl.pc = "returned"
    /\ run' = [run EXCEPT !.pc = "done", !.attempts = Append(@, Outcome(dl.result))]
    /\ dl' = DlIdle
    /\ UNCHANGED <<serverVars, enc, fmt>>

MainNext ==
    \/ MainBranch
    \/ MainCall
    \/ MainCollect
    \/ MainLoopEnd
    \/ MainSummary
    \/ MainSingle
    \/ MainSingleDone
    \/ DlGet
    \/ DlRaiseForStatus
    \/ DlContentLength
    \/ DlChunk
    \/ DlFinish
    \/ DlHandle

---------------------------------------------------------------------------
(* Specifications                                                          *)

ServerIdle(k) ==
    /\ timing_data = 0
    /\ heap = [o \in ObjIds |-> IF o = 0 THEN WarmLog(k) ELSE <<>>]
    /\ th = [t \in Threads |-> IdleThread]
    /\ clock = k
    /\ nreq = 0
    /\ history = WarmLog(k)

(* The server.  It starts with the log a fresh server has after 0, 99 or   *)
(* 100 requests served one after another.                                  *)
ServerInit ==
    /\ \E k \in WarmLevels : ServerIdle(k)
    /\ enc = EncIdle
    /\ dl = DlIdle
    /\ run = RunIdle
    /\ fmt = FmtIdle

Next == ServerNext

(* Requests served concurrently, each on its own thread. *)
Init == ServerInit /\ serial = FALSE

Spec == Init /\ [][Next]_vars

(* Requests served one after another. *)
InitSeq == ServerInit /\ serial = TRUE

SpecSeq == InitSeq /\ [][Next]_vars

(* One call of generate_test_image with a target size of 0 .. MaxTargetKb  *)
(* KB (size_kb is what the route passes: 0, 1, 2, ...).                    *)
InitSearch ==
    /\ ServerIdle(0) /\ serial = TRUE
    /\ \E kb \in 0 .. MaxTargetKb : enc = [EncIdle EXCEPT !.pc = "begin", !.size_kb = kb]
    /\ dl = DlIdle
    /\ run = RunIdle
    /\ fmt = FmtIdle

SpecSearch == InitSearch /\ [][SearchNext]_vars

(* The call keeps running: generate_test_image is straight-line code and   *)
(* a loop on one thread, and every step of it is a step of that thread.    *)
SpecSearchFair == SpecSearch /\ WF_vars(SearchNext)

(* One call of test_image_download_speed. *)
InitDownload ==
    /\ ServerIdle(0) /\ serial = TRUE
    /\ enc = EncIdle
    /\ \E kind \in ServerKinds : dl = DlStartAt(kind)
    /\ run = RunIdle
    /\ fmt = FmtIdle

SpecDownload == InitDownload /\ [][DownloadNext]_vars

(* The call keeps running: the function is single-threaded and each of    *)
(* its steps is taken as soon as the item it waits for has arrived.        *)
SpecDownloadFair == SpecDownload /\ WF_vars(DownloadNext)

(* One run of the client with --multiple 1 .. MaxRuns. *)
InitMain ==
    /\ ServerIdle(0) /\ serial = TRUE
    /\ enc = EncIdle
    /\ dl = DlIdle
    /\ \E m \in 1 .. MaxRuns : run = [RunIdle EXCEPT !.pc = "start", !.multiple = m]
    /\ fmt = FmtIdle

SpecMain == InitMain /\ [][MainNext]_vars

(* One report of a whole number of bytes (per second) of up to MaxDigits   *)
(* digits in base 1024: the leading digit is at, next to or far from the   *)
(* limits 1, 5 and 10 of the assessment, the others are 0, 1 or 1023.      *)
LeadDigits == {1, 4, 5, 6, 9, 10, 11, 1023}
LowerDigits == {0, 1, 1023}

Inputs ==
    {<<0>>} \cup
    {<<lead>> \o lower : lead \in LeadDigits,
                         lower \in UNION {[1 .. n -> LowerDigits] :
                                            n \in 0 .. MaxDigits - 1}}

InitFormat ==
    /\ ServerIdle(0) /\ serial = TRUE
    /\ enc = EncIdle
    /\ dl = DlIdle
    /\ run = RunIdle
    /\ \E digits \in Inputs : fmt = [FmtIdle EXCEPT !.pc = "bytes", !.digits = digits]

SpecFormat == InitFormat /\ [][FormatNext]_vars

---------------------------------------------------------------------------
(* Properties of the server                                                *)

Finished(t, o) == th[t].op = o /\ th[t].pc = "done"

Quiet == \A t \in Threads : th[t].pc \in {"idle", "done"}

(* C1: the transfer log holds at most 100 entries whatever the requests    *)
(* and their interleaving; in particular no stats answer reports more      *)
(* than 100 requests.  Stated on what a stats query observes and on the    *)
(* log between requests.                                                   *)
C1_AtMostCapacityObserved ==
    /\ \A t \in Threads :
         /\ th[t].total <= Capacity
         /\ th[t].result.kind = "stats" =>
              th[t].result.total_requests <= Capacity
    /\ Quiet => Len(Log) <= Capacity

(* C2: append with its eviction, the stats read and clear exclude each     *)
(* other, so every stats answer is the aggregate of the log as it was at   *)
(* one instant between the start and the end of the query.                 *)
C2_StatsAnswerIsAtomic ==
    \A t \in Threads :
        Finished(t, "stats") =>
            \E l \in th[t].seen : th[t].result = Aggregate(l)

(* C3: after N generate requests served one after another on a log that    *)
(* started empty, the log is the last min(N, 100) observations in the      *)
(* order they were appended.                                               *)
C3_LastCapacityInOrder ==
    (serial /\ Quiet) => Log = Suffix(history, Capacity)

C3_Witness ==
    /\ serial /\ Quiet
    /\ Len(history) = Capacity + 2
    /\ Len(Log) = Capacity
    /\ Log[1] = history[3]

(* C4 as stated: a generate-by-dimensions call that returns a payload      *)
(* returns more than 0 bytes and leaves the log with exactly one entry     *)
(* more than it had before the call, whatever the prior log.               *)
C4_CountGrowsByOne ==
    \A t \in Threads :
        (serial /\ Finished(t, "image") /\ th[t].result.kind = "image") =>
            /\ th[t].result.size > 0
            /\ Len(Log) = th[t].before + 1

(* C4 amended: the count after the call is one more than before when the  *)
(* log held fewer than 100 entries, and is still 100 when it held 100:     *)
(* the new observation is appended and the oldest is evicted.              *)
C4_CountGrowsUpToCapacity ==
    \A t \in Threads :
        (serial /\ Finished(t, "image") /\ th[t].result.kind = "image") =>
            /\ th[t].result.size > 0
            /\ Len(Log) = Min(th[t].before + 1, Capacity)
            /\ Log[Len(Log)] = th[t].obs

C4_Witness ==
    \E t \in Threads :
        /\ serial /\ Finished(t, "image") /\ th[t].result.kind = "image"
        /\ th[t].before = Capacity
        /\ Len(Log) = Capacity

(* C5: a generation request with a non-positive width, height or target    *)
(* size is rejected before any work: no image is encoded, no payload is    *)
(* returned and no observation of it is appended.                          *)
InvalidRequest(r) ==
    \/ r.op = "image" /\ (r.width <= 0 \/ r.height <= 0)
    \/ r.op = "sized" /\ r.size_kb <= 0

C5_InvalidRequestRejected ==
    \A t \in Threads :
        InvalidRequest(th[t]) =>
            /\ ~th[t].encoded
            /\ th[t].result.kind # "image"
            /\ \A o \in ObjIds : \A i \in 1 .. Len(heap[o]) :
                 heap[o][i].start_time # th[t].start_time

(* C7: a stats query answers 'no data' exactly when the log is empty at    *)
(* the query; it never answers an empty log with aggregates nor a          *)
(* non-empty log with 'no data'.                                           *)
C7_NoDataIffEmpty ==
    \A t \in Threads :
        (serial /\ Finished(t, "stats")) =>
            /\ th[t].result.kind \in {"nodata", "stats"}
            /\ th[t].result.kind = "nodata" <=> Log = <<>>
            /\ th[t].result.kind = "nodata" => th[t].result = NoDataResult
            /\ th[t].seen = {Log}

C7_Witness ==
    \E t \in Threads :
        /\ serial /\ Finished(t, "stats")
        /\ th[t].result.kind = "nodata"
        /\ clock > Capacity

(* C8: the step that completes a clear-stats request leaves the log        *)
(* empty whatever it held, and an empty log stays empty until a generate   *)
(* request appends its own observation to it.                              *)
C8_ClearEmptiesUntilAppend ==
    [][/\ \A t \in Threads :
            (th[t].pc = "clear" /\ th'[t].pc = "done") => Log' = <<>>
       /\ (Log = <<>> /\ Log' # <<>>) =>
            \E t \in Threads :
                /\ th[t].pc = "append" /\ th'[t].pc = "ld_len"
                /\ th[t].op \in {"image", "sized"}
                /\ Log' = <<th[t].obs>>]_vars

C8_Witness ==
    \E t \in Threads :
        /\ Finished(t, "clear")
        /\ th[t].before = Capacity
        /\ Log = <<>>
        /\ \E u \in Threads : th[u].op \in {"image", "sized"} /\ th[u].pc = "ld_len"

(* C9: on a non-empty log the stats answer is the reference aggregate of   *)
(* the log: the count, the sum of the sizes, their quotient and the last   *)
(* min(10, count) observations in order; the query leaves the log as it    *)
(* was.                                                                    *)
C9_StatsEqualReference ==
    \A t \in Threads :
        (serial /\ Finished(t, "stats") /\ Log # <<>>) =>
            /\ th[t].result = Aggregate(Log)
            /\ th[t].seen = {Log}

C9_Witness ==
    \E t \in Threads :
        /\ serial /\ Finished(t, "stats")
        /\ th[t].result.kind = "stats"
        /\ th[t].result.total_requests = Capacity
        /\ Len(th[t].result.recent_requests) = RecentWindow
        /\ th[t].result.recent_requests[1].start_time > RecentWindow

---------------------------------------------------------------------------
(* Properties of the encoder                                               *)

(* C6: for every valid target size and every size the encoder may produce  *)
(* at each quality, the payload of the target-size mode is within 110% of  *)
(* the target or is the encoding made at the quality floor 10, and it is   *)
(* always the last encoding produced.                                      *)
C6_WithinTargetOrFloor ==
    (enc.pc = "done" /\ enc.size_kb > 0) =>
        /\ \/ 10 * enc.buffer <= 11264 * enc.size_kb
           \/ enc.last_quality = MinQuality
        /\ enc.buffer = enc.last_size

C6_Witness ==
    /\ enc.pc = "done" /\ enc.size_kb > 0
    /\ enc.last_quality = MinQuality
    /\ 10 * enc.buffer > 11264 * enc.size_kb
    /\ enc.saves = 16

(* C15: the quality search terminates whatever size each quality          *)
(* encodes to: the first encoding is at quality 85, each further one 5      *)
(* lower, there are at most 16 encodings and none below quality 10.         *)
C15_SearchTerminates ==
    /\ [](enc.saves >= 1 =>
            /\ enc.saves <= 16
            /\ enc.last_quality = StartQuality - QualityStep * (enc.saves - 1)
            /\ enc.last_quality >= 10)
    /\ <>(enc.pc = "done")

(* Sixteen encodings were made and the last one, at quality 10, fits. *)
C15_Witness ==
    /\ enc.pc = "done" /\ enc.size_kb > 0
    /\ enc.saves = 16 /\ enc.last_quality = 10
    /\ 10 * enc.buffer <= 11264 * enc.size_kb

---------------------------------------------------------------------------
(* Properties of the download                                              *)

SuccessKeys == {"size_bytes", "duration_seconds", "speed_bps"}

(* C10: the download never raises past its boundary; whatever the request  *)
(* and the streaming do, it returns a result that is either a success      *)
(* with size, duration and throughput and no error description, or a       *)
(* failure with an error description and none of the three.                *)
C10_AlwaysTaggedResult ==
    /\ dl.pc # "raised"
    /\ dl.pc = "returned" =>
         /\ dl.result.success \in BOOLEAN
         /\ dl.result.success =>
              /\ SuccessKeys \subseteq DOMAIN dl.result
              /\ "error" \notin DOMAIN dl.result
         /\ ~dl.result.success =>
              /\ "error" \in DOMAIN dl.result
              /\ dl.result.error # NoExc
              /\ SuccessKeys \cap DOMAIN dl.result = {}

C10_Witness ==
    /\ dl.pc = "returned"
    /\ ~dl.result.success
    /\ dl.result.error = "ValueError"

(* C12: every observation in the log has exactly one of the dimension     *)
(* label and the target size: an observation of a request by dimensions    *)
(* has only the label "{width}x{height}" of that request, an observation   *)
(* of a request by target size only the target size that was requested.    *)
DimKeys == {"start_time", "image_size", "dimensions"}
SizedKeys == {"start_time", "image_size", "target_size_kb"}

Entries(o) == {heap[o][i] : i \in 1 .. Len(heap[o])}

EntriesOf(t) ==
    {e \in UNION {Entries(o) : o \in ObjIds} : e.start_time = th[t].start_time}

C12_ExactlyOneDescriptor ==
    /\ \A o \in ObjIds : \A e \in Entries(o) :
          DOMAIN e = DimKeys \/ DOMAIN e = SizedKeys
    /\ \A t \in Threads :
          /\ th[t].op = "image" =>
                \A e \in EntriesOf(t) :
                    /\ DOMAIN e = DimKeys
                    /\ e.dimensions =
                         Decimal(th[t].width) \o "x" \o Decimal(th[t].height)
          /\ th[t].op = "sized" =>
                \A e \in EntriesOf(t) :
                    /\ DOMAIN e = SizedKeys
                    /\ e.target_size_kb = th[t].size_kb

(* Both kinds of request have logged their observation. *)
C12_Witness ==
    \E t, u \in Threads :
        /\ th[t].op = "image" /\ th[u].op = "sized"
        /\ \E e \in Entries(timing_data) : e.start_time = th[t].start_time
        /\ \E e \in Entries(timing_data) : e.start_time = th[u].start_time

FailedGeneration(r) ==
    r.op \in {"image", "sized"} /\ ~r.encoded /\ r.pc # "gen"

(* C13: a generate request whose image generation fails leaves the log     *)
(* as it was: the failing step changes no list and does not rebind the     *)
(* log, it ends the request with an error, and the only step the request   *)
(* takes afterwards is returning that error, so it neither appends an      *)
(* observation nor evicts an entry.                                        *)
C13_FailureLeavesLogAlone ==
    [][\A t \in Threads :
          /\ (th[t].pc = "gen" /\ th'[t].pc # "gen" /\ ~th'[t].encoded) =>
                /\ heap' = heap /\ timing_data' = timing_data
                /\ th'[t].result = ErrorResult
          /\ (FailedGeneration(th[t]) /\ th'[t] # th[t]) =>
                /\ heap' = heap /\ timing_data' = timing_data
                /\ th[t].pc = "done" /\ th'[t].pc = "idle"]_vars

(* The encoder failed on a valid request while the log was full. *)
C13_Witness ==
    \E t \in Threads :
        /\ FailedGeneration(th[t])
        /\ ~InvalidRequest(th[t])
        /\ th[t].result = ErrorResult
        /\ Len(Log) = Capacity

(* C20: a generate request never fails in its log-update step: whatever   *)
(* clear-stats and other generate requests interleave with it, the         *)
(* eviction is never attempted on an empty log nor on one that holds 100   *)
(* entries or fewer.                                                       *)
C20_UpdateNeverFails ==
    \A t \in Threads :
        (th[t].op \in {"image", "sized"} /\ th[t].encoded) =>
            /\ th[t].result # ErrorResult
            /\ th[t].pc = "pop" => Len(heap[th[t].ref]) > Capacity

---------------------------------------------------------------------------
(* Properties of the timeout                                               *)

(* C17: once the configured timeout has elapsed the download eventually   *)
(* completes with a result instead of hanging, whatever the remote server  *)
(* does, even if it keeps delivering chunks without ever ending the body.  *)
C17_ReturnsOnceOverdue == dl.overdue ~> (dl.pc = "returned")

---------------------------------------------------------------------------
(* Properties of main                                                      *)

Successes(attempts) == {k \in 1 .. Len(attempts) : attempts[k].success}

(* Sum of the speeds of the successful attempts among the first k *)
RECURSIVE SuccessSum(_, _)
SuccessSum(attempts, k) ==
    IF k = 0 THEN <<0, 1>>
    ELSE IF attempts[k].success
    THEN RatAdd(SuccessSum(attempts, k - 1), attempts[k].speed_bps)
    ELSE SuccessSum(attempts, k - 1)

MultiDone == run.pc = "done" /\ run.multiple > 1

(* C11: in multi-run mode the reported average is the sum of the           *)
(* throughputs of the successful attempts divided by their number, and     *)
(* the completed count is that number over the repeat count; failed        *)
(* attempts contribute nothing.  (With no success nothing is reported.)    *)
C11_AverageOverSuccesses ==
    MultiDone =>
        LET n == Cardinality(Successes(run.attempts))
            total == SuccessSum(run.attempts, Len(run.attempts))
        IN  IF n = 0
            THEN run.avg = NotPrinted /\ run.completed = NotPrinted
            ELSE /\ run.avg[2] > 0
                 /\ run.avg[1] * total[2] * n = total[1] * run.avg[2]
                 /\ run.completed = <<n, run.multiple>>

(* C16: in multi-run mode with repeat count N exactly N attempts are      *)
(* made, one after another (an attempt starts only when all earlier ones   *)
(* have returned), and a failed attempt does not stop the loop: the loop   *)
(* is left only after the N-th attempt.                                    *)
C16_ExactlyNInSequence ==
    run.multiple > 1 =>
        /\ Len(run.attempts) = run.i
        /\ run.i <= run.multiple
        /\ dl.pc # "idle" => run.pc = "call"
        /\ run.pc \in {"summary", "done"} => Len(run.attempts) = run.multiple

(* The first attempt failed and the loop still ran all its attempts. *)
C16_Witness ==
    /\ MultiDone
    /\ Len(run.attempts) = run.multiple
    /\ ~run.attempts[1].success
    /\ run.attempts[run.multiple].success

(* A run where one attempt failed and another succeeded with a speed > 0   *)
C11_Witness ==
    /\ MultiDone
    /\ Cardinality(Successes(run.attempts)) \in 1 .. (run.multiple - 1)
    /\ run.avg[1] > 0

---------------------------------------------------------------------------
(* Properties of the throughput                                            *)

(* Total length of the chunks counted in lens *)
RECURSIVE TotalLength(_, _)
TotalLength(lens, S) ==
    IF S = {} THEN 0
    ELSE LET len == CHOOSE x \in S : TRUE
         IN  len * lens[len] + TotalLength(lens, S \ {len})

Succeeded == dl.pc = "returned" /\ dl.result.success = TRUE

(* C14: for a successful download the throughput is the bytes received     *)
(* divided by the duration when the duration is positive and exactly 0     *)
(* otherwise; no division by zero is attempted; the bytes received are     *)
(* the sum of the lengths of all chunks consumed.                          *)
C14_ThroughputGuarded ==
    /\ dl.exc # "ZeroDivisionError"
    /\ Succeeded =>
         LET r == dl.result
         IN  /\ r.size_bytes = TotalLength(dl.lens, ChunkLens)
             /\ r.speed_bps[2] > 0
             /\ IF r.duration_seconds > 0
                THEN r.speed_bps[1] * r.duration_seconds
                        = r.size_bytes * r.speed_bps[2]
                ELSE r.speed_bps[1] = 0

(* Bytes were received in chunks of both lengths and the clock stood. *)
C14_Witness ==
    /\ Succeeded
    /\ dl.result.duration_seconds = 0
    /\ dl.lens[1] > 0 /\ dl.lens[ChunkSize] > 0
    /\ dl.result.size_bytes > ChunkSize

---------------------------------------------------------------------------
(* Properties of the report                                                *)

Reported == fmt.pc = "done"

(* x > mb * 1024 * 1024 for the whole number x with the digits d *)
AboveMb(d, mb) ==
    \/ Len(d) > 3
    \/ /\ Len(d) = 3
       /\ \/ d[1] > mb
          \/ d[1] = mb /\ (d[2] > 0 \/ d[3] > 0)

(* C18: the assessment of a throughput uses strict comparisons on its     *)
(* value in MB/s: above 10 excellent, else above 5 good, else above 1      *)
(* moderate, else slow; exactly 10 is good, exactly 5 moderate, exactly 1  *)
(* and 0 slow.                                                             *)
C18_StrictBands ==
    Reported =>
        /\ fmt.band = "excellent" <=> AboveMb(fmt.digits, 10)
        /\ fmt.band = "good" <=>
              ~AboveMb(fmt.digits, 10) /\ AboveMb(fmt.digits, 5)
        /\ fmt.band = "moderate" <=>
              ~AboveMb(fmt.digits, 5) /\ AboveMb(fmt.digits, 1)
        /\ fmt.band = "slow" <=> ~AboveMb(fmt.digits, 1)
        /\ fmt.digits = <<10, 0, 0>> => fmt.band = "good"
        /\ fmt.digits = <<5, 0, 0>> => fmt.band = "moderate"
        /\ fmt.digits \in {<<1, 0, 0>>, <<0>>} => fmt.band = "slow"

(* Exactly 10 MB/s was assessed. *)
C18_Witness ==
    Reported /\ fmt.digits = <<10, 0, 0>> /\ fmt.band = "good"

UnitIndex(units, unit) == CHOOSE k \in 1 .. Len(units) : units[k] = unit

(* C19: for a non-negative byte count x, format_bytes uses the first of    *)
(* B, KB, MB, GB in which the scaled value is below 1024, and TB           *)
(* otherwise, the value shown being x / 1024^k for the unit of index k;    *)
(* format_speed picks the unit of the same index with "/s" appended.       *)
(* (x / 1024^k < 1024 exactly if x has at most k + 1 digits in base 1024.) *)
C19_FirstFittingUnit ==
    Reported =>
        LET k == UnitIndex(ByteUnits, fmt.size_formatted.unit) - 1
        IN  /\ k <= 3 => Len(fmt.digits) <= k + 1
            /\ \A j \in 0 .. k - 1 : Len(fmt.digits) > j + 1
            /\ fmt.size_formatted.digits = fmt.digits
            /\ fmt.size_formatted.den = 1
            /\ fmt.size_formatted.shift = k
            /\ fmt.speed_formatted.unit = SpeedUnits[k + 1]
            /\ fmt.speed_formatted.unit = fmt.size_formatted.unit \o "/s"
            /\ fmt.speed_formatted.digits = fmt.digits
            /\ fmt.speed_formatted.shift = k

(* Exactly 1024^4 bytes were formatted: the first value shown in TB. *)
C19_Witness ==
    /\ Reported
    /\ fmt.digits = <<1, 0, 0, 0, 0>>
    /\ fmt.size_formatted.unit = "TB"
    /\ fmt.speed_formatted.unit = "TB/s"

=============================================================================
